---------------------------- MODULE Spec2Model ----------------------------
(***************************************************************************)
(* Model of convert.py: the Apple Health export.xml to CSV converter.      *)
(*                                                                         *)
(* Strings that the program inspects or rewrites (type identifiers, dates, *)
(* enum codes, file names) are sequences of one-character strings, so that *)
(* prefix stripping, substring tests, regular-expression substitutions and *)
(* lexicographic sorting are computed character by character as the        *)
(* Python code computes them.  Strings the program only copies (values,    *)
(* units, source names) are plain TLA+ strings.                            *)
(***************************************************************************)
EXTENDS Integers, Sequences, FiniteSets, TLC

----------------------------------------------------------------------------
(* Bounds of the model.                                                    *)

\* Number of elements the scanned document may hold below its root.
MaxElems == 3

\* Number of tokens a date string handed to clean_date is built from.
MaxTokens == 6

----------------------------------------------------------------------------
(* Characters and generic string helpers.                                  *)

\* [A-Z] of the regular expressions
Upper == {"A","B","C","D","E","F","G","H","I","J","K","L","M",
          "N","O","P","Q","R","S","T","U","V","W","X","Y","Z"}

\* [a-z] of the regular expressions
Lower == {"a","b","c","d","e","f","g","h","i","j","k","l","m",
          "n","o","p","q","r","s","t","u","v","w","x","y","z"}

\* \d of the regular expressions (ASCII digits)
Digit == {"0","1","2","3","4","5","6","7","8","9"}

\* \s of the regular expressions (ASCII whitespace)
Space == {" ", "\t", "\n", "\r", "\f"}

\* [+-] of the regular expressions
Sign == {"+", "-"}

\* str.lower() on one character
ToLower ==
    ("A" :> "a") @@ ("B" :> "b") @@ ("C" :> "c") @@ ("D" :> "d") @@
    ("E" :> "e") @@ ("F" :> "f") @@ ("G" :> "g") @@ ("H" :> "h") @@
    ("I" :> "i") @@ ("J" :> "j") @@ ("K" :> "k") @@ ("L" :> "l") @@
    ("M" :> "m") @@ ("N" :> "n") @@ ("O" :> "o") @@ ("P" :> "p") @@
    ("Q" :> "q") @@ ("R" :> "r") @@ ("S" :> "s") @@ ("T" :> "t") @@
    ("U" :> "u") @@ ("V" :> "v") @@ ("W" :> "w") @@ ("X" :> "x") @@
    ("Y" :> "y") @@ ("Z" :> "z")

\* Code points of the characters file names are made of ("_" sorts before
\* every lower-case letter, as in Python's comparison of str).
Ord ==
    ("_" :> 95) @@
    ("a" :> 97) @@ ("b" :> 98) @@ ("c" :> 99) @@ ("d" :> 100) @@
    ("e" :> 101) @@ ("f" :> 102) @@ ("g" :> 103) @@ ("h" :> 104) @@
    ("i" :> 105) @@ ("j" :> 106) @@ ("k" :> 107) @@ ("l" :> 108) @@
    ("m" :> 109) @@ ("n" :> 110) @@ ("o" :> 111) @@ ("p" :> 112) @@
    ("q" :> 113) @@ ("r" :> 114) @@ ("s" :> 115) @@ ("t" :> 116) @@
    ("u" :> 117) @@ ("v" :> 118) @@ ("w" :> 119) @@ ("x" :> 120) @@
    ("y" :> 121) @@ ("z" :> 122)

\* str.startswith
StartsWith(s, p) == Len(s) >= Len(p) /\ SubSeq(s, 1, Len(p)) = p

\* the `in` operator on two str
Contains(p, s) ==
    \E i \in 0..(Len(s) - Len(p)) : SubSeq(s, i + 1, i + Len(p)) = p

\* str.replace(p, ""): every non-overlapping occurrence of p, left to right
RECURSIVE Remove(_, _)
Remove(s, p) ==
    IF Len(s) < Len(p) \/ p = <<>> THEN s
    ELSE IF SubSeq(s, 1, Len(p)) = p
         THEN Remove(SubSeq(s, Len(p) + 1, Len(s)), p)
         ELSE <<Head(s)>> \o Remove(Tail(s), p)

\* str < str: lexicographic order by code point
RECURSIVE StrLess(_, _)
StrLess(a, b) ==
    IF b = <<>> THEN FALSE
    ELSE IF a = <<>> THEN TRUE
    ELSE IF Head(a) = Head(b) THEN StrLess(Tail(a), Tail(b))
    ELSE Ord[Head(a)] < Ord[Head(b)]

\* Mutant of sorted: decreasing order.
RECURSIVE sortedDescending(_)
sortedDescending(S) ==
    IF S = {} THEN <<>>
    ELSE LET m == CHOOSE x \in S : \A y \in S \ {x} : StrLess(y, x)
         IN  <<m>> \o sortedDescending(S \ {m})

\* sorted(): the elements of a set of str in increasing order
RECURSIVE sorted(_)
sorted(S) ==
    IF S = {} THEN <<>>
    ELSE LET m == CHOOSE x \in S : \A y \in S \ {x} : StrLess(x, y)
         IN  <<m>> \o sorted(S \ {m})

----------------------------------------------------------------------------
(* Module-level constants of convert.py.                                   *)

QuantityPrefix ==
    <<"H","K","Q","u","a","n","t","i","t","y","T","y","p","e",
      "I","d","e","n","t","i","f","i","e","r">>

CategoryPrefix ==
    <<"H","K","C","a","t","e","g","o","r","y","T","y","p","e",
      "I","d","e","n","t","i","f","i","e","r">>

DataTypePrefix == <<"H","K","D","a","t","a","T","y","p","e">>

TYPE_NAMES ==
       (QuantityPrefix \o <<"H","e","a","r","t","R","a","t","e">> :> <<"h","e","a","r","t","_","r","a","t","e">>)
    @@ (QuantityPrefix \o <<"S","t","e","p","C","o","u","n","t">> :> <<"s","t","e","p","s">>)
    @@ (QuantityPrefix \o <<"B","l","o","o","d","G","l","u","c","o","s","e">> :> <<"b","l","o","o","d","_","g","l","u","c","o","s","e">>)
    @@ (QuantityPrefix \o <<"A","c","t","i","v","e","E","n","e","r","g","y","B","u","r","n","e","d">> :> <<"a","c","t","i","v","e","_","e","n","e","r","g","y">>)
    @@ (QuantityPrefix \o <<"B","a","s","a","l","E","n","e","r","g","y","B","u","r","n","e","d">> :> <<"b","a","s","a","l","_","e","n","e","r","g","y">>)
    @@ (QuantityPrefix \o <<"D","i","s","t","a","n","c","e","W","a","l","k","i","n","g","R","u","n","n","i","n","g">> :> <<"d","i","s","t","a","n","c","e","_","w","a","l","k","i","n","g","_","r","u","n","n","i","n","g">>)
    @@ (QuantityPrefix \o <<"D","i","s","t","a","n","c","e","C","y","c","l","i","n","g">> :> <<"d","i","s","t","a","n","c","e","_","c","y","c","l","i","n","g">>)
    @@ (QuantityPrefix \o <<"O","x","y","g","e","n","S","a","t","u","r","a","t","i","o","n">> :> <<"o","x","y","g","e","n","_","s","a","t","u","r","a","t","i","o","n">>)
    @@ (QuantityPrefix \o <<"B","l","o","o","d","P","r","e","s","s","u","r","e","S","y","s","t","o","l","i","c">> :> <<"b","l","o","o","d","_","p","r","e","s","s","u","r","e","_","s","y","s","t","o","l","i","c">>)
    @@ (QuantityPrefix \o <<"B","l","o","o","d","P","r","e","s","s","u","r","e","D","i","a","s","t","o","l","i","c">> :> <<"b","l","o","o","d","_","p","r","e","s","s","u","r","e","_","d","i","a","s","t","o","l","i","c">>)
    @@ (QuantityPrefix \o <<"F","l","i","g","h","t","s","C","l","i","m","b","e","d">> :> <<"f","l","i","g","h","t","s","_","c","l","i","m","b","e","d">>)
    @@ (QuantityPrefix \o <<"H","e","a","r","t","R","a","t","e","V","a","r","i","a","b","i","l","i","t","y","S","D","N","N">> :> <<"h","e","a","r","t","_","r","a","t","e","_","v","a","r","i","a","b","i","l","i","t","y">>)
    @@ (QuantityPrefix \o <<"R","e","s","t","i","n","g","H","e","a","r","t","R","a","t","e">> :> <<"r","e","s","t","i","n","g","_","h","e","a","r","t","_","r","a","t","e">>)
    @@ (QuantityPrefix \o <<"W","a","l","k","i","n","g","H","e","a","r","t","R","a","t","e","A","v","e","r","a","g","e">> :> <<"w","a","l","k","i","n","g","_","h","e","a","r","t","_","r","a","t","e","_","a","v","g">>)
    @@ (QuantityPrefix \o <<"V","O","2","M","a","x">> :> <<"v","o","2","_","m","a","x">>)
    @@ (QuantityPrefix \o <<"R","e","s","p","i","r","a","t","o","r","y","R","a","t","e">> :> <<"r","e","s","p","i","r","a","t","o","r","y","_","r","a","t","e">>)
    @@ (QuantityPrefix \o <<"B","o","d","y","M","a","s","s">> :> <<"b","o","d","y","_","m","a","s","s">>)
    @@ (QuantityPrefix \o <<"H","e","i","g","h","t">> :> <<"h","e","i","g","h","t">>)
    @@ (QuantityPrefix \o <<"P","h","y","s","i","c","a","l","E","f","f","o","r","t">> :> <<"p","h","y","s","i","c","a","l","_","e","f","f","o","r","t">>)
    @@ (QuantityPrefix \o <<"E","n","v","i","r","o","n","m","e","n","t","a","l","A","u","d","i","o","E","x","p","o","s","u","r","e">> :> <<"e","n","v","i","r","o","n","m","e","n","t","a","l","_","a","u","d","i","o">>)
    @@ (QuantityPrefix \o <<"W","a","l","k","i","n","g","S","p","e","e","d">> :> <<"w","a","l","k","i","n","g","_","s","p","e","e","d">>)
    @@ (QuantityPrefix \o <<"W","a","l","k","i","n","g","S","t","e","p","L","e","n","g","t","h">> :> <<"w","a","l","k","i","n","g","_","s","t","e","p","_","l","e","n","g","t","h">>)
    @@ (QuantityPrefix \o <<"W","a","l","k","i","n","g","D","o","u","b","l","e","S","u","p","p","o","r","t","P","e","r","c","e","n","t","a","g","e">> :> <<"w","a","l","k","i","n","g","_","d","o","u","b","l","e","_","s","u","p","p","o","r","t">>)
    @@ (QuantityPrefix \o <<"W","a","l","k","i","n","g","A","s","y","m","m","e","t","r","y","P","e","r","c","e","n","t","a","g","e">> :> <<"w","a","l","k","i","n","g","_","a","s","y","m","m","e","t","r","y">>)
    @@ (QuantityPrefix \o <<"A","p","p","l","e","W","a","l","k","i","n","g","S","t","e","a","d","i","n","e","s","s">> :> <<"w","a","l","k","i","n","g","_","s","t","e","a","d","i","n","e","s","s">>)
    @@ (QuantityPrefix \o <<"A","p","p","l","e","S","t","a","n","d","T","i","m","e">> :> <<"s","t","a","n","d","_","t","i","m","e">>)
    @@ (QuantityPrefix \o <<"A","p","p","l","e","E","x","e","r","c","i","s","e","T","i","m","e">> :> <<"e","x","e","r","c","i","s","e","_","t","i","m","e">>)
    @@ (QuantityPrefix \o <<"S","t","a","i","r","A","s","c","e","n","t","S","p","e","e","d">> :> <<"s","t","a","i","r","_","a","s","c","e","n","t","_","s","p","e","e","d">>)
    @@ (QuantityPrefix \o <<"S","t","a","i","r","D","e","s","c","e","n","t","S","p","e","e","d">> :> <<"s","t","a","i","r","_","d","e","s","c","e","n","t","_","s","p","e","e","d">>)
    @@ (QuantityPrefix \o <<"T","i","m","e","I","n","D","a","y","l","i","g","h","t">> :> <<"t","i","m","e","_","i","n","_","d","a","y","l","i","g","h","t">>)
    @@ (QuantityPrefix \o <<"S","i","x","M","i","n","u","t","e","W","a","l","k","T","e","s","t","D","i","s","t","a","n","c","e">> :> <<"s","i","x","_","m","i","n","u","t","e","_","w","a","l","k","_","d","i","s","t","a","n","c","e">>)
    @@ (QuantityPrefix \o <<"H","e","a","d","p","h","o","n","e","A","u","d","i","o","E","x","p","o","s","u","r","e">> :> <<"h","e","a","d","p","h","o","n","e","_","a","u","d","i","o">>)
    @@ (CategoryPrefix \o <<"S","l","e","e","p","A","n","a","l","y","s","i","s">> :> <<"s","l","e","e","p","_","a","n","a","l","y","s","i","s">>)
    @@ (CategoryPrefix \o <<"A","p","p","l","e","S","t","a","n","d","H","o","u","r">> :> <<"s","t","a","n","d","_","h","o","u","r","s">>)
    @@ (CategoryPrefix \o <<"A","u","d","i","o","E","x","p","o","s","u","r","e","E","v","e","n","t">> :> <<"a","u","d","i","o","_","e","x","p","o","s","u","r","e","_","e","v","e","n","t","s">>)
    @@ (DataTypePrefix \o <<"S","l","e","e","p","D","u","r","a","t","i","o","n","G","o","a","l">> :> <<"s","l","e","e","p","_","d","u","r","a","t","i","o","n","_","g","o","a","l">>)

BloodPressureSystolic ==
    QuantityPrefix \o <<"B","l","o","o","d","P","r","e","s","s","u","r","e",
                        "S","y","s","t","o","l","i","c">>

BloodPressureDiastolic ==
    QuantityPrefix \o <<"B","l","o","o","d","P","r","e","s","s","u","r","e",
                        "D","i","a","s","t","o","l","i","c">>

BP_TYPES == {BloodPressureSystolic, BloodPressureDiastolic}

WORKOUT_ACTIVITY_PREFIX ==
    <<"H","K","W","o","r","k","o","u","t","A","c","t","i","v","i","t","y",
      "T","y","p","e">>

----------------------------------------------------------------------------
(* The normalizers.                                                        *)

\* The prefix loop of friendly_name: the first prefix that matches is cut
\* off and the loop ends.
StripPrefix(name) ==
    IF StartsWith(name, QuantityPrefix)
        THEN SubSeq(name, Len(QuantityPrefix) + 1, Len(name))
    ELSE IF StartsWith(name, CategoryPrefix)
        THEN SubSeq(name, Len(CategoryPrefix) + 1, Len(name))
    ELSE IF StartsWith(name, DataTypePrefix)
        THEN SubSeq(name, Len(DataTypePrefix) + 1, Len(name))
    ELSE name

\* re.sub(r"([A-Z])", r"_\1", name).lower()
RECURSIVE SnakeCase(_)
SnakeCase(name) ==
    IF name = <<>> THEN <<>>
    ELSE IF Head(name) \in Upper
         THEN <<"_", ToLower[Head(name)]>> \o SnakeCase(Tail(name))
         ELSE <<Head(name)>> \o SnakeCase(Tail(name))

\* str.lstrip("_")
RECURSIVE LStrip(_)
LStrip(name) ==
    IF name # <<>> /\ Head(name) = "_" THEN LStrip(Tail(name)) ELSE name

\* re.sub(r"_+", "_", name)
RECURSIVE CollapseUnderscores(_)
CollapseUnderscores(name) ==
    IF Len(name) < 2 THEN name
    ELSE IF name[1] = "_" /\ name[2] = "_"
         THEN CollapseUnderscores(Tail(name))
         ELSE <<Head(name)>> \o CollapseUnderscores(Tail(name))

friendly_name(hk_type) ==
    IF hk_type \in DOMAIN TYPE_NAMES
    THEN TYPE_NAMES[hk_type]
    ELSE CollapseUnderscores(LStrip(SnakeCase(StripPrefix(hk_type))))

\* Where $ matches: at the end of the string, or just before a newline that
\* is the last character.  e is the index of the last character matched.
AtEnd(s, e) == e = Len(s) \/ (e = Len(s) - 1 /\ s[Len(s)] = "\n")

\* Mutant of MatchesAt: the pattern without its $ anchor.
MatchesAtUnanchored(s, i) ==
    \E j \in (i + 1)..(Len(s) - 4) :
        /\ \A k \in i..(j - 1) : s[k] \in Space
        /\ s[j] \in Sign
        /\ \A k \in (j + 1)..(j + 4) : s[k] \in Digit

\* Whether \s+[+-]\d{4}$ matches s starting at index i: a run of whitespace
\* from i up to a sign at j, four digits, and then $.
MatchesAt(s, i) ==
    \E j \in (i + 1)..(Len(s) - 4) :
        /\ \A k \in i..(j - 1) : s[k] \in Space
        /\ s[j] \in Sign
        /\ \A k \in (j + 1)..(j + 4) : s[k] \in Digit
        /\ AtEnd(s, j + 4)

\* re.sub(r"\s+[+-]\d{4}$", "", s): the leftmost match is cut out; what is
\* left after it (nothing, or the final newline) cannot match again.
OffsetSub(s) ==
    IF \E i \in 1..Len(s) : MatchesAt(s, i)
    THEN LET i == CHOOSE i \in 1..Len(s) :
                    MatchesAt(s, i) /\ \A h \in 1..(i - 1) : ~MatchesAt(s, h)
             j == CHOOSE j \in (i + 1)..(Len(s) - 4) :
                    s[j] \in Sign /\ \A k \in i..(j - 1) : s[k] \in Space
         IN  SubSeq(s, 1, i - 1) \o SubSeq(s, j + 5, Len(s))
    ELSE s

clean_date(date_str) ==
    IF date_str = <<>> THEN <<>> ELSE OffsetSub(date_str)

clean_workout_type(activity_type) ==
    IF StartsWith(activity_type, WORKOUT_ACTIVITY_PREFIX)
    THEN SubSeq(activity_type, Len(WORKOUT_ACTIVITY_PREFIX) + 1,
                Len(activity_type))
    ELSE activity_type

\* re.sub(r"([a-z])([A-Z])", r"\1 \2", name): a space goes between a
\* lower-case letter and the upper-case letter after it.
RECURSIVE SpaceWords(_)
SpaceWords(name) ==
    IF Len(name) < 2 THEN name
    ELSE IF name[1] \in Lower /\ name[2] \in Upper
         THEN <<name[1], " ">> \o SpaceWords(Tail(name))
         ELSE <<Head(name)>> \o SpaceWords(Tail(name))

clean_bio_sex(val) ==
    IF val # <<>>
    THEN Remove(val, <<"H","K","B","i","o","l","o","g","i","c","a","l",
                       "S","e","x">>)
    ELSE <<>>

clean_blood_type(val) ==
    SpaceWords(IF val # <<>>
               THEN Remove(val, <<"H","K","B","l","o","o","d","T","y","p","e">>)
               ELSE <<>>)

clean_skin_type(val) ==
    SpaceWords(IF val # <<>>
               THEN Remove(val, <<"H","K","F","i","t","z","p","a","t","r","i",
                                  "c","k","S","k","i","n","T","y","p","e">>)
               ELSE <<>>)

----------------------------------------------------------------------------
(* The input document: the elements iterparse may report.                  *)

\* elem.get(key, ""): an absent attribute reads as the empty string
Get(attrs, key) == IF key \in DOMAIN attrs THEN attrs[key] ELSE <<>>

\* Type identifiers of the Record elements of the modelled documents: one
\* of the table, one that is not in the table, the two pressure
\* components and one that names both pressure components.
HeartRateType == QuantityPrefix \o <<"H","e","a","r","t","R","a","t","e">>

WorkoutsType == QuantityPrefix \o <<"W","o","r","k","o","u","t","s">>

SystolicDiastolicType ==
    <<"S","y","s","t","o","l","i","c","D","i","a","s","t","o","l","i","c">>

\* type, value and unit of the Record elements
RecordInputs ==
    { <<HeartRateType,          <<"1","2","0">>, <<"m","m","H","g">> >>,
      <<WorkoutsType,           <<"8","0">>,     <<"k","P","a">>     >>,
      <<BloodPressureSystolic,  <<"1","2","0">>, <<"m","m","H","g">> >>,
      <<BloodPressureDiastolic, <<"8","0">>,     <<"k","P","a">>     >>,
      <<BloodPressureDiastolic, <<"1","2","0">>, <<"m","m","H","g">> >>,
      <<SystolicDiastolicType,  <<"8","0">>,     <<"k","P","a">>     >> }

RecordElems ==
    { [tag |-> "Record",
       attrs |-> ("type" :> r[1] @@ "value" :> r[2] @@ "unit" :> r[3])] :
      r \in RecordInputs }

CorrelationElems ==
    { [tag |-> "Correlation",
       attrs |-> ("sourceName" :> <<"A">>
                  @@ "startDate" :> <<"2","0","2","5"," ","-","0","5","0","0">>
                  @@ "endDate" :> <<"2","0","2","5">>)] }

WorkoutElems ==
    { [tag |-> "Workout",
       attrs |-> ("workoutActivityType" :>
                      WORKOUT_ACTIVITY_PREFIX \o <<"W","a","l","k">>
                  @@ "duration" :> <<"3","0">>
                  @@ "startDate" :> <<"2","0","2","5"," ","+","0","1","0","0">>)] }

ActivitySummaryElems ==
    { [tag |-> "ActivitySummary",
       attrs |-> ("dateComponents" :> <<"2","0","2","5">>
                  @@ "appleStandHours" :> <<"9">>)] }

\* Two profile elements: one with all four attributes, one with
\* the biological sex only.
MeElems ==
    { [tag |-> "Me",
       attrs |-> ("HKCharacteristicTypeIdentifierDateOfBirth" :>
                      <<"1","9","9","0">>
                  @@ "HKCharacteristicTypeIdentifierBiologicalSex" :>
                      <<"H","K","B","i","o","l","o","g","i","c","a","l",
                        "S","e","x","M","a","l","e">>
                  @@ "HKCharacteristicTypeIdentifierBloodType" :>
                      <<"H","K","B","l","o","o","d","T","y","p","e",
                        "N","o","t","S","e","t">>
                  @@ "HKCharacteristicTypeIdentifierFitzpatrickSkinType" :>
                      <<"H","K","F","i","t","z","p","a","t","r","i","c","k",
                        "S","k","i","n","T","y","p","e","I","I">>)],
      [tag |-> "Me",
       attrs |-> ("HKCharacteristicTypeIdentifierBiologicalSex" :>
                      <<"H","K","B","i","o","l","o","g","i","c","a","l",
                        "S","e","x","O","t","h","e","r">>)] }

\* An element the scan has no branch for
OtherElems == { [tag |-> "MetadataEntry", attrs |-> ("key" :> <<"k">>)] }

\* The document element
RootElems == { [tag |-> "HealthData", attrs |-> ("locale" :> <<"e","n">>)] }

ChildElems ==
    RecordElems \cup CorrelationElems \cup WorkoutElems
    \cup ActivitySummaryElems \cup MeElems \cup OtherElems

----------------------------------------------------------------------------
(* State.                                                                  *)

VARIABLES
    pc,                  \* position in parse_and_convert
    export_exists,       \* os.path.isfile(export_path)
    outdir_created,      \* os.makedirs(output_dir) has run
    exit_code,           \* <<>> while running, <<c>> once the process ended
    open,                \* the parser's stack of open elements
    n_elems,             \* elements started below the root
    root_seen,           \* the document element has been started
    closed,              \* the elements closed so far, in closing order
    in_correlation,
    current_correlation, \* <<>> for None, <<c>> for the dict c
    records,
    workouts,
    activity_summaries,
    correlations,
    profile,             \* <<>> for None, <<p>> for the dict p
    todo,                \* what is left of the loop over sorted(records)
    file_count,
    files,               \* the output directory: file name -> content
    written,             \* the open(path, "w") calls, in order
    date_str,            \* clean_date: argument
    date_out,            \* clean_date: <<>> or <<result>>
    date_again           \* clean_date of the result: <<>> or <<result>>

scan_vars ==
    <<open, n_elems, root_seen, closed, in_correlation, current_correlation,
      records, workouts, activity_summaries, correlations, profile>>

write_vars == <<todo, file_count, files, written>>

date_vars == <<date_str, date_out, date_again>>

vars ==
    <<pc, export_exists, outdir_created, exit_code, scan_vars, write_vars,
      date_vars>>

\* ids of the Correlation elements that are open, outermost first
OpenCorrelations(stack) ==
    LET idx == {i \in 1..Len(stack) : stack[i].tag = "Correlation"}
        RECURSIVE Ids(_)
        Ids(i) == IF i > Len(stack) THEN <<>>
                  ELSE IF i \in idx THEN <<stack[i].id>> \o Ids(i + 1)
                  ELSE Ids(i + 1)
    IN  Ids(1)

----------------------------------------------------------------------------
(* parse_and_convert: start-up.                                            *)

InitRun ==
    /\ pc = "start"
    /\ outdir_created = FALSE
    /\ exit_code = <<>>
    /\ open = <<>>
    /\ n_elems = 0
    /\ root_seen = FALSE
    /\ closed = <<>>
    /\ in_correlation = FALSE
    /\ current_correlation = <<>>
    /\ records = <<>>
    /\ workouts = <<>>
    /\ activity_summaries = <<>>
    /\ correlations = <<>>
    /\ profile = <<>>
    /\ todo = <<>>
    /\ file_count = 0
    /\ files = <<>>
    /\ written = <<>>

Init ==
    /\ InitRun
    /\ export_exists \in BOOLEAN
    /\ date_str = <<>>
    /\ date_out = <<>>
    /\ date_again = <<>>

\* Mutant of MissingInput: os.makedirs runs before the test for export.xml.
MissingInputAfterMakedirs ==
    /\ pc = "start"
    /\ ~export_exists
    /\ outdir_created' = TRUE
    /\ pc' = "exit"
    /\ exit_code' = <<1>>
    /\ UNCHANGED <<export_exists, scan_vars, write_vars, date_vars>>

\* export.xml is missing: the error is reported and the process exits
\* with code 1.
MissingInput ==
    /\ pc = "start"
    /\ ~export_exists
    /\ pc' = "exit"
    /\ exit_code' = <<1>>
    /\ UNCHANGED <<export_exists, outdir_created, scan_vars, write_vars,
                   date_vars>>

\* export.xml is there: the output directory is made, the buckets are
\* set up empty and the scan begins.
BeginScan ==
    /\ pc = "start"
    /\ export_exists
    /\ outdir_created' = TRUE
    /\ pc' = "scan"
    /\ UNCHANGED <<export_exists, exit_code, scan_vars, write_vars,
                   date_vars>>

----------------------------------------------------------------------------
(* parse_and_convert: the scan, one action per event and tag.              *)

\* The dict a Correlation start event builds
NewCorrelation(e, id) ==
    [elem         |-> id,
     type         |-> Get(e.attrs, "type"),
     sourceName   |-> Get(e.attrs, "sourceName"),
     creationDate |-> Get(e.attrs, "creationDate"),
     startDate    |-> Get(e.attrs, "startDate"),
     endDate      |-> Get(e.attrs, "endDate"),
     records      |-> <<>>]

\* The row a Record end event builds
RecordRow(e) ==
    [elem          |-> e.id,
     source        |-> Get(e.attrs, "sourceName"),
     value         |-> Get(e.attrs, "value"),
     unit          |-> Get(e.attrs, "unit"),
     start_date    |-> clean_date(Get(e.attrs, "startDate")),
     end_date      |-> clean_date(Get(e.attrs, "endDate")),
     creation_date |-> clean_date(Get(e.attrs, "creationDate"))]

\* {"type": rec_type, **row}
ChildRow(e) ==
    [elem          |-> e.id,
     type          |-> Get(e.attrs, "type"),
     source        |-> Get(e.attrs, "sourceName"),
     value         |-> Get(e.attrs, "value"),
     unit          |-> Get(e.attrs, "unit"),
     start_date    |-> clean_date(Get(e.attrs, "startDate")),
     end_date      |-> clean_date(Get(e.attrs, "endDate")),
     creation_date |-> clean_date(Get(e.attrs, "creationDate"))]

WorkoutRow(e) ==
    [elem                |-> e.id,
     activity_type       |->
         clean_workout_type(Get(e.attrs, "workoutActivityType")),
     duration            |-> Get(e.attrs, "duration"),
     duration_unit       |-> Get(e.attrs, "durationUnit"),
     total_distance      |-> Get(e.attrs, "totalDistance"),
     distance_unit       |-> Get(e.attrs, "totalDistanceUnit"),
     total_energy_burned |-> Get(e.attrs, "totalEnergyBurned"),
     energy_unit         |-> Get(e.attrs, "totalEnergyBurnedUnit"),
     source              |-> Get(e.attrs, "sourceName"),
     start_date          |-> clean_date(Get(e.attrs, "startDate")),
     end_date            |-> clean_date(Get(e.attrs, "endDate"))]

ActivitySummaryRow(e) ==
    [elem                      |-> e.id,
     date                      |-> Get(e.attrs, "dateComponents"),
     active_energy_burned      |-> Get(e.attrs, "activeEnergyBurned"),
     active_energy_burned_goal |-> Get(e.attrs, "activeEnergyBurnedGoal"),
     exercise_time             |-> Get(e.attrs, "appleExerciseTime"),
     exercise_time_goal        |-> Get(e.attrs, "appleExerciseTimeGoal"),
     stand_hours               |-> Get(e.attrs, "appleStandHours"),
     stand_hours_goal          |-> Get(e.attrs, "appleStandHoursGoal")]

ProfileRow(e) ==
    [elem           |-> e.id,
     date_of_birth  |->
         Get(e.attrs, "HKCharacteristicTypeIdentifierDateOfBirth"),
     biological_sex |-> clean_bio_sex(
         Get(e.attrs, "HKCharacteristicTypeIdentifierBiologicalSex")),
     blood_type     |-> clean_blood_type(
         Get(e.attrs, "HKCharacteristicTypeIdentifierBloodType")),
     skin_type      |-> clean_skin_type(
         Get(e.attrs, "HKCharacteristicTypeIdentifierFitzpatrickSkinType"))]

\* records[name].append(row) on the defaultdict
BucketAppend(buckets, name, row) ==
    IF name \in DOMAIN buckets
    THEN [buckets EXCEPT ![name] = Append(@, row)]
    ELSE (name :> <<row>>) @@ buckets

\* The element on top of the parser's stack: the one an end event reports
Top == open[Len(open)]

\* What every end event does to the parser and to the log of closed elements
Close ==
    /\ open' = SubSeq(open, 1, Len(open) - 1)
    /\ closed' = Append(closed,
                        [id    |-> Top.id,
                         tag   |-> Top.tag,
                         attrs |-> Top.attrs,
                         anc   |-> OpenCorrelations(
                                       SubSeq(open, 1, Len(open) - 1))])
    /\ UNCHANGED <<n_elems, root_seen>>

\* A start event.  The first one is the document element; a Correlation
\* sets the flag and becomes the current correlation, any other tag only
\* continues the loop.
StartElement ==
    /\ pc = "scan"
    /\ \/ open = <<>> /\ ~root_seen
       \/ open # <<>> /\ n_elems < MaxElems
    /\ \E e \in (IF open = <<>> THEN RootElems ELSE ChildElems) :
         LET id == IF open = <<>> THEN 0 ELSE n_elems + 1 IN
         /\ open' = Append(open, [id |-> id, tag |-> e.tag, attrs |-> e.attrs])
         /\ n_elems' = IF open = <<>> THEN n_elems ELSE n_elems + 1
         /\ root_seen' = TRUE
         /\ IF e.tag = "Correlation"
            THEN /\ in_correlation' = TRUE
                 /\ current_correlation' = <<NewCorrelation(e, id)>>
            ELSE UNCHANGED <<in_correlation, current_correlation>>
    /\ UNCHANGED <<pc, export_exists, outdir_created, exit_code, closed,
                   records, workouts, activity_summaries, correlations,
                   profile, write_vars, date_vars>>

\* Mutant of NewProfile: a field the closing Me element lacks keeps the
\* value of the profile before.
NewProfileMerged(old, e) ==
    LET new == ProfileRow(e) IN
    IF old = <<>> THEN <<new>>
    ELSE <<[f \in DOMAIN new |-> IF f # "elem" /\ new[f] = <<>> THEN old[1][f]
                                 ELSE new[f]]>>

\* profile = {...}: the dict of the closing Me element replaces whatever
\* profile held.
NewProfile(old, e) == <<ProfileRow(e)>>

EndMe ==
    /\ pc = "scan"
    /\ open # <<>>
    /\ Top.tag = "Me"
    /\ profile' = NewProfile(profile, Top)
    /\ Close
    /\ UNCHANGED <<pc, export_exists, outdir_created, exit_code,
                   in_correlation, current_correlation, records, workouts,
                   activity_summaries, correlations, write_vars, date_vars>>

\* Mutant of RecordTarget: the test against BP_TYPES is missing.
RecordTargetNoSkip(rec_type) ==
    IF in_correlation /\ current_correlation # <<>> THEN "child" ELSE "bucket"

\* Where a closing Record goes: "child" of the current correlation,
\* "bucket" named by its type, or "skip".
RecordTarget(rec_type) ==
    IF in_correlation /\ current_correlation # <<>> THEN "child"
    ELSE IF rec_type \notin BP_TYPES THEN "bucket"
    ELSE "skip"

EndRecord ==
    /\ pc = "scan"
    /\ open # <<>>
    /\ Top.tag = "Record"
    /\ LET rec_type == Get(Top.attrs, "type")
           target   == RecordTarget(rec_type) IN
         /\ current_correlation' =
                IF target = "child"
                THEN <<[current_correlation[1] EXCEPT
                          !.records = Append(@, ChildRow(Top))]>>
                ELSE current_correlation
         /\ records' =
                IF target = "bucket"
                THEN BucketAppend(records, friendly_name(rec_type),
                                  RecordRow(Top))
                ELSE records
    /\ Close
    /\ UNCHANGED <<pc, export_exists, outdir_created, exit_code,
                   in_correlation, workouts, activity_summaries, correlations,
                   profile, write_vars, date_vars>>

\* Mutant of FinishedCorrelations: the correlation goes to the front.
FinishedCorrelationsAtFront(corrs, cur) ==
    IF cur # <<>> THEN <<cur[1]>> \o corrs ELSE corrs

\* "if current_correlation is not None: correlations.append(...)"
FinishedCorrelations(corrs, cur) ==
    IF cur # <<>> THEN Append(corrs, cur[1]) ELSE corrs

EndCorrelation ==
    /\ pc = "scan"
    /\ open # <<>>
    /\ Top.tag = "Correlation"
    /\ correlations' = FinishedCorrelations(correlations, current_correlation)
    /\ in_correlation' = FALSE
    /\ current_correlation' = <<>>
    /\ Close
    /\ UNCHANGED <<pc, export_exists, outdir_created, exit_code, records,
                   workouts, activity_summaries, profile, write_vars,
                   date_vars>>

\* Mutant of EndWorkout: the workouts file is rewritten as each Workout
\* closes.
EndWorkoutStreaming ==
    /\ pc = "scan"
    /\ open # <<>>
    /\ Top.tag = "Workout"
    /\ workouts' = Append(workouts, WorkoutRow(Top))
    /\ files' = (<<"w","o","r","k","o","u","t","s">> :>
                    [rows |-> Append(workouts, WorkoutRow(Top))]) @@ files
    /\ Close
    /\ UNCHANGED <<pc, export_exists, outdir_created, exit_code,
                   in_correlation, current_correlation, records,
                   activity_summaries, correlations, profile, todo,
                   file_count, written, date_vars>>

EndWorkout ==
    /\ pc = "scan"
    /\ open # <<>>
    /\ Top.tag = "Workout"
    /\ workouts' = Append(workouts, WorkoutRow(Top))
    /\ Close
    /\ UNCHANGED <<pc, export_exists, outdir_created, exit_code,
                   in_correlation, current_correlation, records,
                   activity_summaries, correlations, profile, write_vars,
                   date_vars>>

EndActivitySummary ==
    /\ pc = "scan"
    /\ open # <<>>
    /\ Top.tag = "ActivitySummary"
    /\ activity_summaries' = Append(activity_summaries, ActivitySummaryRow(Top))
    /\ Close
    /\ UNCHANGED <<pc, export_exists, outdir_created, exit_code,
                   in_correlation, current_correlation, records, workouts,
                   correlations, profile, write_vars, date_vars>>

\* The end of an element of any other tag: no branch is taken
EndOther ==
    /\ pc = "scan"
    /\ open # <<>>
    /\ Top.tag \notin {"Me", "Record", "Correlation", "Workout",
                       "ActivitySummary"}
    /\ Close
    /\ UNCHANGED <<pc, export_exists, outdir_created, exit_code,
                   in_correlation, current_correlation, records, workouts,
                   activity_summaries, correlations, profile, write_vars,
                   date_vars>>

\* iterparse raises ParseError (the document stops being well-formed):
\* the exception is not caught and the process ends with code 1.
ParseError ==
    /\ pc = "scan"
    /\ pc' = "exit"
    /\ exit_code' = <<1>>
    /\ UNCHANGED <<export_exists, outdir_created, scan_vars, write_vars,
                   date_vars>>

\* iterparse is exhausted: the document element has closed.  The summary
\* is printed, file_count is set to 0 and the loop over sorted(records)
\* begins.
EndOfDocument ==
    /\ pc = "scan"
    /\ root_seen
    /\ open = <<>>
    /\ file_count' = 0
    /\ todo' = sorted(DOMAIN records)
    /\ pc' = IF DOMAIN records = {} THEN "write_bp" ELSE "write_records"
    /\ UNCHANGED <<export_exists, outdir_created, exit_code, scan_vars,
                   files, written, date_vars>>

----------------------------------------------------------------------------
(* parse_and_convert: the writes, one action per output file.              *)

record_fields ==
    <<"source", "value", "unit", "start_date", "end_date", "creation_date">>

bp_fields ==
    <<"systolic", "diastolic", "unit", "source", "start_date", "end_date">>

workout_fields ==
    <<"activity_type", "duration", "duration_unit", "total_distance",
      "distance_unit", "total_energy_burned", "energy_unit", "source",
      "start_date", "end_date">>

summary_fields ==
    <<"date", "active_energy_burned", "active_energy_burned_goal",
      "exercise_time", "exercise_time_goal", "stand_hours",
      "stand_hours_goal">>

profile_fields ==
    <<"date_of_birth", "biological_sex", "blood_type", "skin_type">>

\* "blood_pressure", "workouts", "activity_summary", "profile": the stems
\* of the four fixed file names
blood_pressure_csv ==
    <<"b","l","o","o","d","_","p","r","e","s","s","u","r","e">>

workouts_csv == <<"w","o","r","k","o","u","t","s">>

activity_summary_csv ==
    <<"a","c","t","i","v","i","t","y","_","s","u","m","m","a","r","y">>

profile_csv == <<"p","r","o","f","i","l","e">>

\* open(path, "w") ... writeheader() ... writerows(rows): the file is
\* created or truncated and holds the header and the rows.
WriteFile(fs, name, fields, rows) ==
    (name :> [fields |-> fields, rows |-> rows]) @@ fs

\* Mutant of BPStep: the diastolic child sets the unit as well.
BPStepUnitFromBoth(acc, rec) ==
    IF Contains(<<"S","y","s","t","o","l","i","c">>, rec.type)
    THEN [acc EXCEPT !.systolic = rec.value, !.unit = rec.unit]
    ELSE IF Contains(<<"D","i","a","s","t","o","l","i","c">>, rec.type)
    THEN [acc EXCEPT !.diastolic = rec.value, !.unit = rec.unit]
    ELSE acc

\* One step of the loop over a correlation's child records
BPStep(acc, rec) ==
    IF Contains(<<"S","y","s","t","o","l","i","c">>, rec.type)
    THEN [acc EXCEPT !.systolic = rec.value, !.unit = rec.unit]
    ELSE IF Contains(<<"D","i","a","s","t","o","l","i","c">>, rec.type)
    THEN [acc EXCEPT !.diastolic = rec.value]
    ELSE acc

RECURSIVE BPScan(_, _)
BPScan(acc, recs) ==
    IF recs = <<>> THEN acc ELSE BPScan(BPStep(acc, Head(recs)), Tail(recs))

\* The blood-pressure row of one correlation
BPRow(corr) ==
    LET acc == BPScan([systolic |-> <<>>, diastolic |-> <<>>, unit |-> <<>>],
                      corr.records)
    IN  [elem       |-> corr.elem,
         systolic   |-> acc.systolic,
         diastolic  |-> acc.diastolic,
         unit       |-> acc.unit,
         source     |-> corr.sourceName,
         start_date |-> clean_date(corr.startDate),
         end_date   |-> clean_date(corr.endDate)]

bp_rows == [i \in 1..Len(correlations) |-> BPRow(correlations[i])]

\* One turn of "for name in sorted(records)"
WriteRecordFile ==
    /\ pc = "write_records"
    /\ todo # <<>>
    /\ LET name == Head(todo) IN
         /\ files' = WriteFile(files, name, record_fields, records[name])
         /\ written' = Append(written, [bucket |-> "records", name |-> name])
    /\ file_count' = file_count + 1
    /\ todo' = Tail(todo)
    /\ pc' = IF Tail(todo) = <<>> THEN "write_bp" ELSE "write_records"
    /\ UNCHANGED <<export_exists, outdir_created, exit_code, scan_vars,
                   date_vars>>

\* "if correlations:" and its body
WriteBloodPressure ==
    /\ pc = "write_bp"
    /\ IF correlations # <<>>
       THEN /\ files' = WriteFile(files, blood_pressure_csv, bp_fields, bp_rows)
            /\ written' = Append(written, [bucket |-> "blood_pressure",
                                           name |-> blood_pressure_csv])
            /\ file_count' = file_count + 1
       ELSE UNCHANGED <<files, written, file_count>>
    /\ pc' = "write_workouts"
    /\ UNCHANGED <<export_exists, outdir_created, exit_code, scan_vars, todo,
                   date_vars>>

\* Mutant of WriteWorkouts: the file is written without the test.
WriteWorkoutsAlways ==
    /\ pc = "write_workouts"
    /\ files' = WriteFile(files, workouts_csv, workout_fields, workouts)
    /\ written' = Append(written, [bucket |-> "workouts",
                                   name |-> workouts_csv])
    /\ file_count' = file_count + 1
    /\ pc' = "write_summary"
    /\ UNCHANGED <<export_exists, outdir_created, exit_code, scan_vars, todo,
                   date_vars>>

\* "if workouts:" and its body
WriteWorkouts ==
    /\ pc = "write_workouts"
    /\ IF workouts # <<>>
       THEN /\ files' = WriteFile(files, workouts_csv, workout_fields, workouts)
            /\ written' = Append(written, [bucket |-> "workouts",
                                           name |-> workouts_csv])
            /\ file_count' = file_count + 1
       ELSE UNCHANGED <<files, written, file_count>>
    /\ pc' = "write_summary"
    /\ UNCHANGED <<export_exists, outdir_created, exit_code, scan_vars, todo,
                   date_vars>>

\* "if activity_summaries:" and its body
WriteActivitySummary ==
    /\ pc = "write_summary"
    /\ IF activity_summaries # <<>>
       THEN /\ files' = WriteFile(files, activity_summary_csv, summary_fields,
                                  activity_summaries)
            /\ written' = Append(written, [bucket |-> "activity_summary",
                                           name |-> activity_summary_csv])
            /\ file_count' = file_count + 1
       ELSE UNCHANGED <<files, written, file_count>>
    /\ pc' = "write_profile"
    /\ UNCHANGED <<export_exists, outdir_created, exit_code, scan_vars, todo,
                   date_vars>>

\* "if profile:" and its body (a dict of four keys is true even when all
\* its values are empty), then the final report; the process ends with
\* code 0.
WriteProfile ==
    /\ pc = "write_profile"
    /\ IF profile # <<>>
       THEN /\ files' = WriteFile(files, profile_csv, profile_fields, profile)
            /\ written' = Append(written, [bucket |-> "profile",
                                           name |-> profile_csv])
            /\ file_count' = file_count + 1
       ELSE UNCHANGED <<files, written, file_count>>
    /\ pc' = "exit"
    /\ exit_code' = <<0>>
    /\ UNCHANGED <<export_exists, outdir_created, scan_vars, todo, date_vars>>

Next ==
    \/ MissingInput
    \/ BeginScan
    \/ StartElement
    \/ EndMe
    \/ EndRecord
    \/ EndCorrelation
    \/ EndWorkout
    \/ EndActivitySummary
    \/ EndOther
    \/ ParseError
    \/ EndOfDocument
    \/ WriteRecordFile
    \/ WriteBloodPressure
    \/ WriteWorkouts
    \/ WriteActivitySummary
    \/ WriteProfile

Spec == Init /\ [][Next]_vars

----------------------------------------------------------------------------
(* clean_date on its own: every date string built from a few tokens.       *)

Tokens ==
    { <<"x">>, <<" ">>, <<"\n">>, <<"-">>, <<"+">>, <<"0","5","0","0">> }

RECURSIVE Flatten(_)
Flatten(ts) == IF ts = <<>> THEN <<>> ELSE Head(ts) \o Flatten(Tail(ts))

DateInputs ==
    { Flatten(ts) : ts \in UNION { [1..n -> Tokens] : n \in 0..MaxTokens } }

InitDate ==
    /\ InitRun
    /\ export_exists = FALSE
    /\ date_str \in DateInputs
    /\ date_out = <<>>
    /\ date_again = <<>>

\* clean_date(date_str)
CleanDate ==
    /\ date_out = <<>>
    /\ date_out' = <<clean_date(date_str)>>
    /\ UNCHANGED <<pc, export_exists, outdir_created, exit_code, scan_vars,
                   write_vars, date_str, date_again>>

\* clean_date of the string the first call returned
CleanDateAgain ==
    /\ date_out # <<>>
    /\ date_again = <<>>
    /\ date_again' = <<clean_date(date_out[1])>>
    /\ UNCHANGED <<pc, export_exists, outdir_created, exit_code, scan_vars,
                   write_vars, date_str, date_out>>

NextDate == CleanDate \/ CleanDateAgain

SpecDate == InitDate /\ [][NextDate]_vars

----------------------------------------------------------------------------
(* Vocabulary of the properties.                                           *)

\* The scan has consumed the whole document.
ScanOver ==
    pc \in {"write_records", "write_bp", "write_workouts", "write_summary",
            "write_profile"}
    \/ (pc = "exit" /\ exit_code = <<0>>)

\* The run has ended successfully.
Done == pc = "exit" /\ exit_code = <<0>>

\* The run ended in the error outcome.
Failed == pc = "exit" /\ exit_code = <<1>>

\* The "if correlations:" block is behind.
PastBloodPressure ==
    pc \in {"write_workouts", "write_summary", "write_profile"} \/ Done

ClosedWith(tag) == {i \in 1..Len(closed) : closed[i].tag = tag}

\* How often the Record element id occurs in the category buckets
BucketCount(id) ==
    Cardinality({<<n, k>> \in UNION {{n} \X (1..Len(records[n])) :
                                         n \in DOMAIN records} :
                     records[n][k].elem = id})

\* How often it occurs among the children of the finalized correlations
ChildCount(id) ==
    Cardinality({<<i, k>> \in UNION {{i} \X (1..Len(correlations[i].records)) :
                                         i \in 1..Len(correlations)} :
                     correlations[i].records[k].elem = id})

InBucket(id, name) ==
    /\ name \in DOMAIN records
    /\ \E k \in 1..Len(records[name]) : records[name][k].elem = id

IsChildOf(id, cid) ==
    \E i \in 1..Len(correlations) :
        /\ correlations[i].elem = cid
        /\ \E k \in 1..Len(correlations[i].records) :
               correlations[i].records[k].elem = id

\* No Correlation element of the document lies inside another one.
NoNestedCorrelation ==
    \A i \in ClosedWith("Correlation") : closed[i].anc = <<>>

\* The place the claim gives the closed Record element r
PlacedAsClaimed(r) ==
    IF r.anc # <<>>
    THEN /\ BucketCount(r.id) = 0
         /\ ChildCount(r.id) = 1
         /\ IsChildOf(r.id, r.anc[Len(r.anc)])
    ELSE IF Get(r.attrs, "type") \in BP_TYPES
    THEN BucketCount(r.id) = 0 /\ ChildCount(r.id) = 0
    ELSE /\ BucketCount(r.id) = 1
         /\ ChildCount(r.id) = 0
         /\ InBucket(r.id, friendly_name(Get(r.attrs, "type")))

----------------------------------------------------------------------------
(* C1 *)

\* C1, as stated: after the scan of any sequence of events every Record is
\* in exactly one place: only among the children of the Correlation it
\* closed in, nowhere when it is a top-level pressure component, else in
\* exactly the bucket named by its normalized type.
C1_AsStated ==
    ScanOver => \A i \in ClosedWith("Record") : PlacedAsClaimed(closed[i])

\* C1, amended: the same for every document in which no Correlation
\* element lies inside another Correlation element.
C1_RecordPlacement ==
    (ScanOver /\ NoNestedCorrelation)
        => \A i \in ClosedWith("Record") : PlacedAsClaimed(closed[i])

\* A scanned document without nested Correlations that holds a Record
\* inside a Correlation and a pressure-component Record outside of any.
C1_Witness ==
    /\ ScanOver
    /\ NoNestedCorrelation
    /\ \E i \in ClosedWith("Record") : closed[i].anc # <<>>
    /\ \E i \in ClosedWith("Record") :
           closed[i].anc = <<>> /\ Get(closed[i].attrs, "type") \in BP_TYPES

----------------------------------------------------------------------------
(* C2 *)

\* ids of the closed elements at the indices I, in closing order
RECURSIVE IdsFrom(_, _)
IdsFrom(i, I) ==
    IF i > Len(closed) THEN <<>>
    ELSE IF i \in I THEN <<closed[i].id>> \o IdsFrom(i + 1, I)
    ELSE IdsFrom(i + 1, I)

\* The Correlation elements that hold no other Correlation element
InnermostCorrelations ==
    {i \in ClosedWith("Correlation") :
        \A j \in ClosedWith("Correlation") :
            \A k \in 1..Len(closed[j].anc) : closed[j].anc[k] # closed[i].id}

\* The elements the rows of the blood-pressure table were made from
BloodPressureRowIds ==
    IF blood_pressure_csv \in DOMAIN files
    THEN [k \in 1..Len(files[blood_pressure_csv].rows) |->
              files[blood_pressure_csv].rows[k].elem]
    ELSE <<>>

\* C2, as stated: the blood-pressure table has one row per Correlation
\* element of the document, nested ones included, in closing order.
C2_AsStated ==
    PastBloodPressure
        => BloodPressureRowIds = IdsFrom(1, ClosedWith("Correlation"))

\* C2, amended: the blood-pressure table has one row per Correlation
\* element that holds no other Correlation element, in closing order; a
\* Correlation that holds another one gets no row.
C2_RowPerInnermostCorrelation ==
    PastBloodPressure => BloodPressureRowIds = IdsFrom(1, InnermostCorrelations)

\* A written table with two rows, from a document in which a
\* Correlation holds other Correlations.
C2_Witness ==
    /\ PastBloodPressure
    /\ Len(BloodPressureRowIds) = 2
    /\ InnermostCorrelations # ClosedWith("Correlation")

----------------------------------------------------------------------------
(* C3 *)

Last(S) == CHOOSE k \in S : \A h \in S : h <= k

SystolicWord == <<"S","y","s","t","o","l","i","c">>

DiastolicWord == <<"D","i","a","s","t","o","l","i","c">>

\* The row of the written table at index i is derived from the children
\* of correlation i, the children at sys giving systolic and unit and
\* the children at dia giving diastolic (the last one of several).
DerivedFrom(i, sys, dia) ==
    LET row  == files[blood_pressure_csv].rows[i]
        recs == correlations[i].records IN
    /\ row.systolic = IF sys = {} THEN <<>> ELSE recs[Last(sys)].value
    /\ row.unit = IF sys = {} THEN <<>> ELSE recs[Last(sys)].unit
    /\ row.diastolic = IF dia = {} THEN <<>> ELSE recs[Last(dia)].value

ChildrenWith(i, word) ==
    {k \in 1..Len(correlations[i].records) :
        Contains(word, correlations[i].records[k].type)}

\* C3, as stated: systolic and unit come from the child whose type
\* contains "Systolic", diastolic from the child whose type contains
\* "Diastolic"; a missing component leaves its fields empty.
C3_AsStated ==
    (PastBloodPressure /\ correlations # <<>>)
        => \A i \in 1..Len(correlations) :
               DerivedFrom(i, ChildrenWith(i, SystolicWord),
                           ChildrenWith(i, DiastolicWord))

\* C3, amended: diastolic comes from the child whose type contains
\* "Diastolic" and does not contain "Systolic"; a child whose type
\* contains both words counts as systolic only.
C3_RowDerivation ==
    (PastBloodPressure /\ correlations # <<>>)
        => \A i \in 1..Len(correlations) :
               DerivedFrom(i, ChildrenWith(i, SystolicWord),
                           ChildrenWith(i, DiastolicWord)
                               \ ChildrenWith(i, SystolicWord))

\* A written row 120 / 80 / mmHg, from a correlation whose children are one
\* systolic reading 120 mmHg and one diastolic reading 80 kPa.
C3_Witness ==
    /\ PastBloodPressure
    /\ \E i \in 1..Len(correlations) :
        /\ Len(correlations[i].records) = 2
        /\ {correlations[i].records[k].type : k \in 1..2} = BP_TYPES
        /\ files[blood_pressure_csv].rows[i].systolic = <<"1","2","0">>
        /\ files[blood_pressure_csv].rows[i].diastolic = <<"8","0">>
        /\ files[blood_pressure_csv].rows[i].unit = <<"m","m","H","g">>

----------------------------------------------------------------------------
(* C4 *)

\* s[1..e] ends in whitespace, a sign and four digits.
OffsetEndsAt(s, e) ==
    /\ e >= 6
    /\ s[e - 5] \in Space
    /\ s[e - 4] \in Sign
    /\ \A k \in (e - 3)..e : s[k] \in Digit

\* s has a whitespace-plus-signed-4-digit-offset suffix.
TrailingOffset(s) == OffsetEndsAt(s, Len(s))

\* s has that suffix at its end or just before a final newline.
OffsetBeforeEnd(s) ==
    \/ OffsetEndsAt(s, Len(s))
    \/ (s # <<>> /\ s[Len(s)] = "\n" /\ OffsetEndsAt(s, Len(s) - 1))

\* C4, as stated: clean_date(clean_date(s)) = clean_date(s) for every
\* string s, and a string with no trailing offset suffix is returned
\* unchanged.
C4_AsStated ==
    date_again # <<>> =>
        /\ date_again = date_out
        /\ ~TrailingOffset(date_str) => date_out[1] = date_str

\* C4, amended: clean_date cuts one offset suffix, the one at the end of
\* the string or just before its final newline, together with the
\* whitespace before it.  A string with no such suffix is returned
\* unchanged, a string with one gets shorter by at least six characters,
\* and a second application changes nothing unless the result of the
\* first again carries such a suffix.
C4_DateNormalization ==
    /\ (date_out # <<>> /\ ~OffsetBeforeEnd(date_str))
           => date_out[1] = date_str
    /\ (date_out # <<>> /\ OffsetBeforeEnd(date_str))
           => /\ Len(date_out[1]) <= Len(date_str) - 6
              /\ \E n \in 0..Len(date_str) :
                     /\ \A k \in 1..n : date_out[1][k] = date_str[k]
                     /\ Len(date_out[1]) \in {n, n + 1}
                     /\ Len(date_out[1]) = n + 1 => date_out[1][n + 1] = "\n"
                     /\ n > 0 => date_str[n] \notin Space
    /\ (date_again # <<>> /\ ~OffsetBeforeEnd(date_out[1]))
           => date_again = date_out

\* A date with an offset suffix, cleaned twice: the first call cut the
\* suffix and the second call changed nothing.
C4_Witness ==
    /\ date_again # <<>>
    /\ TrailingOffset(date_str)
    /\ date_out[1] # date_str
    /\ date_again = date_out

----------------------------------------------------------------------------
(* C5 *)

\* C5: without export.xml the run ends with exit code 1 before anything
\* else: the output directory is not created, no element is scanned and
\* no file is written.
C5_MissingInputIsFatal ==
    ~export_exists
        => /\ pc \in {"start", "exit"}
           /\ pc = "exit" => exit_code = <<1>>
           /\ ~outdir_created
           /\ ~root_seen /\ open = <<>> /\ closed = <<>>
           /\ files = <<>> /\ written = <<>>

\* The run has ended after finding no export.xml.
C5_Witness == ~export_exists /\ pc = "exit"

----------------------------------------------------------------------------
(* C6 *)

\* Position of a bucket's group in the order of the writes
GroupOf(bucket) ==
    CASE bucket = "records"          -> 1
      [] bucket = "blood_pressure"   -> 2
      [] bucket = "workouts"         -> 3
      [] bucket = "activity_summary" -> 4
      [] bucket = "profile"          -> 5

\* C6: the category files are written in increasing lexicographic order of
\* their names, then blood_pressure, workouts, activity_summary and
\* profile, each at most once: no write of a later group precedes a
\* write of an earlier one.
C6_WriteOrder ==
    \A i, j \in 1..Len(written) :
        i < j =>
            IF written[i].bucket = "records" /\ written[j].bucket = "records"
            THEN StrLess(written[i].name, written[j].name)
            ELSE GroupOf(written[i].bucket) < GroupOf(written[j].bucket)

\* A finished run that wrote two category files and then at least one of
\* the other files.
C6_Witness ==
    /\ Done
    /\ Len(written) >= 3
    /\ written[1].bucket = "records"
    /\ written[2].bucket = "records"
    /\ written[3].bucket # "records"

----------------------------------------------------------------------------
(* C7 *)

Wrote(bucket) == \E i \in 1..Len(written) : written[i].bucket = bucket

WroteCategory(name) ==
    \E i \in 1..Len(written) :
        written[i].bucket = "records" /\ written[i].name = name

\* The names the category files were written under
WrittenCategories ==
    {written[i].name :
        i \in {h \in 1..Len(written) : written[h].bucket = "records"}}

\* The category names of the Records that were appended to a bucket
AppendedCategories ==
    {friendly_name(Get(closed[i].attrs, "type")) :
        i \in {h \in ClosedWith("Record") : BucketCount(closed[h].id) > 0}}

\* C7: in a finished run a file was written for a bucket exactly when
\* the bucket is not empty: a category file iff a Record was appended to
\* that category, workouts iff a Workout closed, activity_summary iff
\* an ActivitySummary closed, blood_pressure iff a Correlation was
\* finalized, profile iff a Me element closed.
C7_FileIffBucketNonEmpty ==
    Done =>
        /\ WrittenCategories = AppendedCategories
        /\ Wrote("workouts") <=> ClosedWith("Workout") # {}
        /\ Wrote("activity_summary") <=> ClosedWith("ActivitySummary") # {}
        /\ Wrote("blood_pressure") <=> correlations # <<>>
        /\ Wrote("profile") <=> ClosedWith("Me") # {}
        /\ \A i \in 1..Len(written) : written[i].name \in DOMAIN files

\* A finished run that wrote the workouts file and a category file and,
\* having seen no Me element, no profile.
C7_Witness ==
    /\ Done
    /\ Wrote("workouts")
    /\ Wrote("records")
    /\ ~Wrote("profile")
    /\ ~Wrote("blood_pressure")

----------------------------------------------------------------------------
(* C8 *)

LastMe == closed[Last(ClosedWith("Me"))]

\* C8: once a Me element has closed, the profile is the one of the last
\* Me element closed, all four fields; in a finished run the profile
\* file holds exactly that one row.
C8_ProfileLastWins ==
    ClosedWith("Me") # {} =>
        /\ Len(profile) = 1
        /\ profile[1].date_of_birth =
               Get(LastMe.attrs, "HKCharacteristicTypeIdentifierDateOfBirth")
        /\ profile[1].biological_sex = clean_bio_sex(
               Get(LastMe.attrs, "HKCharacteristicTypeIdentifierBiologicalSex"))
        /\ profile[1].blood_type = clean_blood_type(
               Get(LastMe.attrs, "HKCharacteristicTypeIdentifierBloodType"))
        /\ profile[1].skin_type = clean_skin_type(
               Get(LastMe.attrs,
                   "HKCharacteristicTypeIdentifierFitzpatrickSkinType"))
        /\ Done => /\ profile_csv \in DOMAIN files
                   /\ files[profile_csv].rows = profile

\* A finished run over two Me elements, the first with a date of birth
\* and the last without: the written row has none.
C8_Witness ==
    /\ Done
    /\ Cardinality(ClosedWith("Me")) = 2
    /\ \E i \in ClosedWith("Me") :
           Get(closed[i].attrs,
               "HKCharacteristicTypeIdentifierDateOfBirth") # <<>>
    /\ Get(LastMe.attrs, "HKCharacteristicTypeIdentifierDateOfBirth") = <<>>
    /\ files[profile_csv].rows[1].date_of_birth = <<>>
    /\ files[profile_csv].rows[1].biological_sex = <<"O","t","h","e","r">>

----------------------------------------------------------------------------
(* C9 *)

\* C9: nothing is written before the scan is over, so a run that aborts
\* during the scan has written no file; a run that completes has
\* written every bucket that is not empty.
C9_ScanThenWrite ==
    /\ ~ScanOver => (files = <<>> /\ written = <<>> /\ file_count = 0)
    /\ Done =>
        /\ \A name \in DOMAIN records : WroteCategory(name)
        /\ correlations # <<>> => Wrote("blood_pressure")
        /\ workouts # <<>> => Wrote("workouts")
        /\ activity_summaries # <<>> => Wrote("activity_summary")
        /\ profile # <<>> => Wrote("profile")

\* A run that aborted during the scan with every kind of bucket filled.
C9_Witness ==
    /\ Failed
    /\ export_exists
    /\ DOMAIN records # {}
    /\ workouts # <<>>
    /\ correlations # <<>>
    /\ files = <<>>

----------------------------------------------------------------------------
(* C10 *)

\* C10: no file name is written twice, and the reported file count is
\* the number of files in the output directory.
C10_DistinctFiles ==
    /\ \A i, j \in 1..Len(written) :
           i # j => written[i].name # written[j].name
    /\ Done => file_count = Cardinality(DOMAIN files)

=============================================================================
